---- MODULE Spec2Model ----
(***************************************************************************)
(* A model of the circuit breaker of gobreaker.go: the Counts tally, the   *)
(* CircuitBreaker state machine with its generation and expiry, Execute    *)
(* and the two-step Allow/done pair, called by concurrent callers.  The    *)
(* two critical sections (beforeRequest, afterRequest) and State() run     *)
(* under cb.mutex and are atomic steps; the wrapped request runs between   *)
(* them, outside the lock.                                                 *)
(***************************************************************************)
EXTENDS Integers, Sequences, FiniteSets, Bags

(* ---------- bounds of the model ---------- *)

\* number of admitted calls that can be in flight at once
NProcs == 2

\* the clock runs from 1 to MaxTime
MaxTime == 4

\* Spec admits and records at most MaxCount calls per generation
MaxCount == 3

\* SpecSeq (one caller, one call at a time) admits at most MaxSeqCount calls
MaxSeqCount == 7

(* ---------- State, errors ---------- *)

StateClosed == "closed"
StateHalfOpen == "half-open"
StateOpen == "open"

ErrNil == "nil"
ErrTooManyRequests == "too many requests"
ErrOpenState == "circuit breaker is open"

\* a nil callback of Settings
Nil == "nil"

\* Settings.ReadyToTrip: nil, or the predicate "counts.ConsecutiveFailures > k"
NilTrip == [nil |-> TRUE, gt |-> 0]
TripAbove(k) == [nil |-> FALSE, gt |-> k]

\* the zero time.Time; the clock starts after it
ZeroTime == 0

(* ---------- Counts ---------- *)

ZeroCounts ==
    [Requests |-> 0, TotalSuccesses |-> 0, TotalFailures |-> 0,
     ConsecutiveSuccesses |-> 0, ConsecutiveFailures |-> 0]

Counts_onRequest(c) == [c EXCEPT !.Requests = @ + 1]

\* a slip: the failure streak is not reset
Mut_Counts_onSuccess(c) ==
    [c EXCEPT !.TotalSuccesses = @ + 1, !.ConsecutiveSuccesses = @ + 1]

Counts_onSuccess(c) ==
    [c EXCEPT !.TotalSuccesses = @ + 1,
              !.ConsecutiveSuccesses = @ + 1,
              !.ConsecutiveFailures = 0]

Counts_onFailure(c) ==
    [c EXCEPT !.TotalFailures = @ + 1,
              !.ConsecutiveFailures = @ + 1,
              !.ConsecutiveSuccesses = 0]

\* a slip: clear forgets the Requests field
Mut_Counts_clear_keepsRequests(c) ==
    [c EXCEPT !.TotalSuccesses = 0, !.TotalFailures = 0,
              !.ConsecutiveSuccesses = 0, !.ConsecutiveFailures = 0]

Counts_clear(c) ==
    [c EXCEPT !.Requests = 0, !.TotalSuccesses = 0, !.TotalFailures = 0,
              !.ConsecutiveSuccesses = 0, !.ConsecutiveFailures = 0]

(* ---------- Settings and construction ---------- *)

defaultInterval == 0
defaultTimeout == 60

\* a slip: "at least 5" where the code has "more than 5"
Mut_defaultReadyToTrip(counts) == counts.ConsecutiveFailures >= 5

defaultReadyToTrip(counts) == counts.ConsecutiveFailures > 5

\* Settings.IsSuccessful is Nil or "lenient", a classifier that counts every
\* returned error as a success
defaultIsSuccessful(err) == err = ErrNil

\* the zero Settings: every default
ZeroSettings ==
    [MaxRequests |-> 0, Interval |-> 0, Timeout |-> 0, ReadyToTrip |-> NilTrip,
     OnStateChange |-> Nil, IsSuccessful |-> Nil]

\* the Settings values breakers are built from
SettingsSet ==
    [MaxRequests : {0, 1, 2},
     Interval : {-1, 0, 1},
     Timeout : {-1, 0, 1},
     ReadyToTrip : {TripAbove(0), TripAbove(1)},
     OnStateChange : {"observer"},
     IsSuccessful : {Nil}]
    \cup {ZeroSettings}

\* the Settings values of SpecSeq: no clearing interval, a threshold predicate
SeqSettingsSet ==
    [MaxRequests : {0, 2},
     Interval : {0},
     Timeout : {0, 1},
     ReadyToTrip : {NilTrip, TripAbove(0), TripAbove(1), TripAbove(2)},
     OnStateChange : {Nil, "observer"},
     IsSuccessful : {Nil, "lenient"}]

VARIABLES
    cb,       \* the CircuitBreaker: its settings, mutex, state, generation, counts,
              \* expiry, and calls: the callbacks invoked and the generations
              \* started by the operation that ran last
    clock,    \* time.Now()
    execs,    \* the Execute calls inside req: a bag of the generations they captured
    handles,  \* the done handles of Allow that callers hold: a bag of their generations
    last,     \* the operation that ran last, and what it returned
    seqFails, \* history: N when all that happened so far is N failed calls in a row, else -1
    openedAt, \* history: T when Open was entered at T and no State/Execute/Allow call
              \* has yet been made after T + timeout; else 0
    genAllow, \* history: an Allow call was admitted in the current generation
    lastNote  \* history: the new state of the latest state-change notification

vars == <<cb, clock, execs, handles, last, seqFails, openedAt, genAllow, lastNote>>

(* ---------- callbacks ---------- *)

\* cb.mutex.Lock() and cb.mutex.Unlock()
Lock(c) == [c EXCEPT !.mutex = TRUE]
Unlock(c) == [c EXCEPT !.mutex = FALSE]

\* an entry of calls: what was called, with the state change it was told of,
\* and the generation, the counts and the mutex as they were at the call
Call(c, fn, prev, state) ==
    [fn |-> fn, from |-> prev, to |-> state,
     generation |-> c.generation, counts |-> c.counts, locked |-> c.mutex]

CallReadyToTrip(c) == Call(c, "readyToTrip", Nil, Nil)

CallIsSuccessful(c) == Call(c, "isSuccessful", Nil, Nil)

CallOnStateChange(c, prev, state) == Call(c, "onStateChange", prev, state)

readyToTrip(c, counts) ==
    IF c.readyToTrip.nil THEN defaultReadyToTrip(counts)
    ELSE counts.ConsecutiveFailures > c.readyToTrip.gt

isSuccessful(c, err) ==
    IF c.isSuccessful = Nil THEN defaultIsSuccessful(err) ELSE TRUE

(* ---------- the state machine ---------- *)

\* the entry of calls that a new generation leaves when it has started
Started(c) == [c EXCEPT !.calls = Append(@, Call(c, "toNewGeneration", Nil, Nil))]

\* a slip: the Closed expiry is now, the interval is not added
Mut_toNewGeneration_noInterval(c, now) ==
    Started([c EXCEPT !.generation = @ + 1,
                      !.counts = Counts_clear(@),
                      !.expiry = CASE c.state = StateClosed ->
                                        IF c.interval = 0 THEN ZeroTime
                                        ELSE now
                                   [] c.state = StateOpen -> now + c.timeout
                                   [] OTHER -> ZeroTime])

toNewGeneration(c, now) ==
    Started([c EXCEPT !.generation = @ + 1,
                      !.counts = Counts_clear(@),
                      !.expiry = CASE c.state = StateClosed ->
                                        IF c.interval = 0 THEN ZeroTime
                                        ELSE now + c.interval
                                   [] c.state = StateOpen -> now + c.timeout
                                   [] OTHER -> ZeroTime])

\* a slip: the observer is called before the new generation is started
Mut_setState_notifyFirst(c, state, now) ==
    IF c.state = state THEN c
    ELSE LET prev == c.state
             c1 == [c EXCEPT !.state = state]
             c2 == IF c1.onStateChange # Nil
                   THEN [c1 EXCEPT !.calls = Append(@, CallOnStateChange(c1, prev, state))]
                   ELSE c1
         IN  toNewGeneration(c2, now)

setState(c, state, now) ==
    IF c.state = state THEN c
    ELSE LET prev == c.state
             c1 == toNewGeneration([c EXCEPT !.state = state], now)
         IN  IF c1.onStateChange # Nil
             THEN [c1 EXCEPT !.calls = Append(@, CallOnStateChange(c1, prev, state))]
             ELSE c1

\* expiry.Before(now)
Before(expiry, now) == expiry < now

\* a slip: Open ends at the expiry instead of strictly after it
Mut_currentState_atExpiry(c, now) ==
    CASE c.state = StateClosed ->
             IF c.expiry # ZeroTime /\ Before(c.expiry, now)
             THEN toNewGeneration(c, now) ELSE c
      [] c.state = StateOpen ->
             IF ~Before(now, c.expiry) THEN setState(c, StateHalfOpen, now) ELSE c
      [] OTHER -> c

\* a slip: the Closed expiry is not compared with now
Mut_currentState_noBefore(c, now) ==
    CASE c.state = StateClosed ->
             IF c.expiry # ZeroTime
             THEN toNewGeneration(c, now) ELSE c
      [] c.state = StateOpen ->
             IF Before(c.expiry, now) THEN setState(c, StateHalfOpen, now) ELSE c
      [] OTHER -> c

\* a slip: HalfOpen is given a time-based step too, back to Open past its expiry
Mut_currentState_halfOpenExpires(c, now) ==
    CASE c.state = StateClosed ->
             IF c.expiry # ZeroTime /\ Before(c.expiry, now)
             THEN toNewGeneration(c, now) ELSE c
      [] c.state = StateOpen ->
             IF Before(c.expiry, now) THEN setState(c, StateHalfOpen, now) ELSE c
      [] OTHER ->
             IF Before(c.expiry, now) THEN setState(c, StateOpen, now) ELSE c

currentState(c, now) ==
    CASE c.state = StateClosed ->
             IF c.expiry # ZeroTime /\ Before(c.expiry, now)
             THEN toNewGeneration(c, now) ELSE c
      [] c.state = StateOpen ->
             IF Before(c.expiry, now) THEN setState(c, StateHalfOpen, now) ELSE c
      [] OTHER -> c

\* a slip: a HalfOpen success is counted like a Closed one, nothing closes
Mut_onSuccess_countOnly(c, state, now) ==
    CASE state = StateClosed -> [c EXCEPT !.counts = Counts_onSuccess(@)]
      [] state = StateHalfOpen -> [c EXCEPT !.counts = Counts_onSuccess(@)]
      [] OTHER -> c

\* a slip: "more than maxRequests" where the code has "at least"
Mut_onSuccess_strict(c, state, now) ==
    CASE state = StateClosed -> [c EXCEPT !.counts = Counts_onSuccess(@)]
      [] state = StateHalfOpen ->
             LET c1 == [c EXCEPT !.counts = Counts_onSuccess(@)]
             IN  IF c1.counts.ConsecutiveSuccesses > c1.maxRequests
                 THEN setState(c1, StateClosed, now) ELSE c1
      [] OTHER -> c

onSuccess(c, state, now) ==
    CASE state = StateClosed -> [c EXCEPT !.counts = Counts_onSuccess(@)]
      [] state = StateHalfOpen ->
             LET c1 == [c EXCEPT !.counts = Counts_onSuccess(@)]
             IN  IF c1.counts.ConsecutiveSuccesses >= c1.maxRequests
                 THEN setState(c1, StateClosed, now) ELSE c1
      [] OTHER -> c

\* a slip: a half-open failure asks the trip predicate, as a closed one does
Mut_onFailure_askWhenHalfOpen(c, state, now) ==
    IF state \in {StateClosed, StateHalfOpen}
    THEN LET c1 == [c EXCEPT !.counts = Counts_onFailure(@),
                             !.calls = Append(@, CallReadyToTrip(c))]
         IN  IF readyToTrip(c1, c1.counts)
             THEN setState(c1, StateOpen, now) ELSE c1
    ELSE c

onFailure(c, state, now) ==
    CASE state = StateClosed ->
             LET c1 == [c EXCEPT !.counts = Counts_onFailure(@),
                                 !.calls = Append(@, CallReadyToTrip(c))]
             IN  IF readyToTrip(c1, c1.counts)
                 THEN setState(c1, StateOpen, now) ELSE c1
      [] state = StateHalfOpen -> setState(c, StateOpen, now)
      [] OTHER -> c

\* a slip: the attempt is counted before the state is looked at
Mut_beforeRequest_countFirst(c, now) ==
    LET c1 == currentState(Lock(c), now)
        c2 == Unlock([c1 EXCEPT !.counts = Counts_onRequest(@)])
    IN  IF c1.state = StateOpen
        THEN [cb |-> c2, generation |-> c1.generation, err |-> ErrOpenState]
        ELSE IF c1.state = StateHalfOpen /\ c1.counts.Requests >= c1.maxRequests
        THEN [cb |-> c2, generation |-> c1.generation, err |-> ErrTooManyRequests]
        ELSE [cb |-> c2, generation |-> c1.generation, err |-> ErrNil]

\* a slip: "more than maxRequests" where the code has "at least"
Mut_beforeRequest_strict(c, now) ==
    LET c1 == currentState(Lock(c), now)
    IN  IF c1.state = StateOpen
        THEN [cb |-> Unlock(c1), generation |-> c1.generation, err |-> ErrOpenState]
        ELSE IF c1.state = StateHalfOpen /\ c1.counts.Requests > c1.maxRequests
        THEN [cb |-> Unlock(c1), generation |-> c1.generation,
              err |-> ErrTooManyRequests]
        ELSE [cb |-> Unlock([c1 EXCEPT !.counts = Counts_onRequest(@)]),
              generation |-> c1.generation, err |-> ErrNil]

\* returns the breaker, the generation and the error
\* a slip: no rejection in Open, only the HalfOpen quota is checked
Mut_beforeRequest_noOpenCheck(c, now) ==
    LET c1 == currentState(Lock(c), now)
    IN  IF c1.state = StateHalfOpen /\ c1.counts.Requests >= c1.maxRequests
        THEN [cb |-> Unlock(c1), generation |-> c1.generation,
              err |-> ErrTooManyRequests]
        ELSE [cb |-> Unlock([c1 EXCEPT !.counts = Counts_onRequest(@)]),
              generation |-> c1.generation, err |-> ErrNil]

\* beforeRequest that returns without releasing the mutex
Mut_beforeRequest_noUnlock(c, now) ==
    LET c1 == currentState(Lock(c), now)
    IN  IF c1.state = StateOpen
        THEN [cb |-> c1, generation |-> c1.generation, err |-> ErrOpenState]
        ELSE IF c1.state = StateHalfOpen /\ c1.counts.Requests >= c1.maxRequests
        THEN [cb |-> c1, generation |-> c1.generation, err |-> ErrTooManyRequests]
        ELSE [cb |-> [c1 EXCEPT !.counts = Counts_onRequest(@)],
              generation |-> c1.generation, err |-> ErrNil]

beforeRequest(c, now) ==
    LET c1 == currentState(Lock(c), now)
    IN  IF c1.state = StateOpen
        THEN [cb |-> Unlock(c1), generation |-> c1.generation, err |-> ErrOpenState]
        ELSE IF c1.state = StateHalfOpen /\ c1.counts.Requests >= c1.maxRequests
        THEN [cb |-> Unlock(c1), generation |-> c1.generation,
              err |-> ErrTooManyRequests]
        ELSE [cb |-> Unlock([c1 EXCEPT !.counts = Counts_onRequest(@)]),
              generation |-> c1.generation, err |-> ErrNil]

\* a slip: the outcome is recorded whatever generation it was admitted at
Mut_afterRequest_noGeneration(c, before, success, now) ==
    LET c1 == currentState(Lock(c), now)
    IN  Unlock(IF success THEN onSuccess(c1, c1.state, now)
               ELSE onFailure(c1, c1.state, now))

\* afterRequest that does its work without taking the mutex
Mut_afterRequest_noLock(c, before, success, now) ==
    LET c1 == currentState(c, now)
    IN  Unlock(IF c1.generation # before THEN c1
               ELSE IF success THEN onSuccess(c1, c1.state, now)
               ELSE onFailure(c1, c1.state, now))

afterRequest(c, before, success, now) ==
    LET c1 == currentState(Lock(c), now)
    IN  Unlock(IF c1.generation # before THEN c1
               ELSE IF success THEN onSuccess(c1, c1.state, now)
               ELSE onFailure(c1, c1.state, now))

\* CircuitBreaker.State: the breaker after the call; it returns the state
StateCall(c, now) == Unlock(currentState(Lock(c), now))

\* a slip: the zero State is not StateClosed
Mut_NewFields_zeroState(st) ==
    [maxRequests |-> IF st.MaxRequests = 0 THEN 1 ELSE st.MaxRequests,
     interval |-> IF st.Interval <= 0 THEN defaultInterval ELSE st.Interval,
     timeout |-> IF st.Timeout <= 0 THEN defaultTimeout ELSE st.Timeout,
     readyToTrip |-> IF st.ReadyToTrip.nil THEN NilTrip ELSE st.ReadyToTrip,
     isSuccessful |-> st.IsSuccessful,
     onStateChange |-> st.OnStateChange,
     mutex |-> FALSE,
     state |-> StateHalfOpen,
     generation |-> 0,
     counts |-> ZeroCounts,
     expiry |-> ZeroTime,
     calls |-> << >>]

\* the zero CircuitBreaker filled in from st, before its first generation
NewFields(st) ==
    [maxRequests |-> IF st.MaxRequests = 0 THEN 1 ELSE st.MaxRequests,
     interval |-> IF st.Interval <= 0 THEN defaultInterval ELSE st.Interval,
     timeout |-> IF st.Timeout <= 0 THEN defaultTimeout ELSE st.Timeout,
     readyToTrip |-> IF st.ReadyToTrip.nil THEN NilTrip ELSE st.ReadyToTrip,
     isSuccessful |-> st.IsSuccessful,
     onStateChange |-> st.OnStateChange,
     mutex |-> FALSE,
     state |-> StateClosed,
     generation |-> 0,
     counts |-> ZeroCounts,
     expiry |-> ZeroTime,
     calls |-> << >>]

NewCircuitBreaker(st, now) == toNewGeneration(NewFields(st), now)

\* a slip: no deferred recover, a panic of req leaves Execute at once
Mut_ExecuteFinish_noRecover(c, generation, outcome, now) ==
    IF outcome = "panic"
    THEN [cb |-> c, after |-> 0]
    ELSE [cb |-> afterRequest([c EXCEPT !.calls = Append(@, CallIsSuccessful(c))],
                              generation,
                              isSuccessful(c, IF outcome = "ok" THEN ErrNil ELSE "error"),
                              now),
          after |-> 1]

\* Execute from the return (or panic) of req on: outcome is "ok", "err" or "panic".
\* Returns the breaker and the number of afterRequest calls made.
ExecuteFinish(c, generation, outcome, now) ==
    IF outcome = "panic"
    THEN \* req panicked: line 313 is skipped, the deferred function recovers e # nil
         [cb |-> afterRequest(c, generation, FALSE, now), after |-> 1]
    ELSE \* req returned: the classifier is called for afterRequest's argument,
         \* then afterRequest; recover() is nil
         [cb |-> afterRequest([c EXCEPT !.calls = Append(@, CallIsSuccessful(c))],
                              generation,
                              isSuccessful(c, IF outcome = "ok" THEN ErrNil ELSE "error"),
                              now),
          after |-> 1]

(* ---------- history ---------- *)

Notes(c) == SelectSeq(c.calls, LAMBDA e : e.fn = "onStateChange")

\* c2 is the breaker after the operation op of this step
History(c2, op) ==
    /\ openedAt' = IF c2.state = StateOpen /\ cb.state # StateOpen THEN clock
                   ELSE IF /\ op \in {"State", "Execute", "Allow"}
                           /\ openedAt > 0
                           /\ clock > openedAt + cb.timeout
                        THEN 0
                        ELSE openedAt
    /\ lastNote' = IF Notes(c2) = << >> THEN lastNote
                   ELSE Notes(c2)[Len(Notes(c2))].to

Cleared == [cb EXCEPT !.calls = << >>]

Recorded(c) == c.counts.TotalSuccesses + c.counts.TotalFailures

\* what `last` records of an operation: its name, what it returned (State: the
\* state; Execute, Allow: the error; Return: how req ended), and for an outcome
\* report the generation it was admitted at, the verdict passed to afterRequest,
\* whether afterRequest found that generation stale, and the number of
\* afterRequest calls made; again tells a State call that directly follows a
\* State call that started a generation
Op(op, ret, gen, verdict, stale, after) ==
    [op |-> op, ret |-> ret, gen |-> gen, verdict |-> verdict, stale |-> stale,
     after |-> after, again |-> FALSE]

NoReport(op, ret) == Op(op, ret, 0, Nil, FALSE, 0)

Stale(g) == currentState(Cleared, clock).generation # g

(* ---------- operations ---------- *)

InFlight == BagCardinality(execs) + BagCardinality(handles)

One(g) == SetToBag({g})

\* CircuitBreaker.State, by any caller
State ==
    LET c2 == StateCall(Cleared, clock)
    IN  /\ ~cb.mutex
        /\ cb' = c2
        /\ last' = [NoReport("State", c2.state) EXCEPT
                        !.again = (last.op = "State" /\ cb.calls # << >>)]
        /\ seqFails' = -1
        /\ genAllow' = (genAllow /\ c2.generation = cb.generation)
        /\ History(c2, "State")
        /\ UNCHANGED <<clock, execs, handles>>

\* Execute up to the call of req: beforeRequest, and the return of its error
Execute(cap) ==
    /\ ~cb.mutex
    /\ InFlight < NProcs
    /\ cb.counts.Requests < cap
    /\ LET r == beforeRequest(Cleared, clock)
       IN  /\ cb' = r.cb
           /\ last' = NoReport("Execute", r.err)
           /\ IF r.err # ErrNil
              THEN /\ UNCHANGED execs
                   /\ seqFails' = -1
              ELSE /\ execs' = execs (+) One(r.generation)
                   /\ seqFails' = IF InFlight = 0 THEN seqFails ELSE -1
           /\ genAllow' = (genAllow /\ r.cb.generation = cb.generation)
           /\ History(r.cb, "Execute")
    /\ UNCHANGED <<clock, handles>>

\* Execute from the end of req on, for a call admitted at generation g: req
\* returns nil ("ok"), returns an error ("err") or panics ("panic")
Return(g, outcome, cap) ==
    /\ ~cb.mutex
    /\ BagIn(g, execs)
    /\ Recorded(cb) < cap
    /\ LET r == ExecuteFinish(Cleared, g, outcome, clock)
           failed == outcome = "panic"
                     \/ ~isSuccessful(cb, IF outcome = "ok" THEN ErrNil ELSE "error")
       IN  /\ cb' = r.cb
           /\ last' = Op("Return", outcome, g, IF failed THEN "failure" ELSE "success",
                       Stale(g), r.after)
           /\ seqFails' = IF failed /\ seqFails >= 0 THEN seqFails + 1 ELSE -1
           /\ genAllow' = (genAllow /\ r.cb.generation = cb.generation)
           /\ History(r.cb, "Return")
    /\ execs' = execs (-) One(g)
    /\ UNCHANGED <<clock, handles>>

\* TwoStepCircuitBreaker.Allow: beforeRequest, and the done handle when admitted
Allow(cap) ==
    /\ ~cb.mutex
    /\ InFlight < NProcs
    /\ cb.counts.Requests < cap
    /\ LET r == beforeRequest(Cleared, clock)
       IN  /\ cb' = r.cb
           /\ last' = NoReport("Allow", r.err)
           /\ IF r.err # ErrNil
              THEN /\ UNCHANGED handles
                   /\ genAllow' = (genAllow /\ r.cb.generation = cb.generation)
              ELSE /\ handles' = handles (+) One(r.generation)
                   /\ genAllow' = TRUE
           /\ History(r.cb, "Allow")
    /\ seqFails' = -1
    /\ UNCHANGED <<clock, execs>>

\* a done handle of generation g, called with success; the caller keeps the handle
Done(g, success, cap) ==
    /\ ~cb.mutex
    /\ BagIn(g, handles)
    /\ Recorded(cb) < cap
    /\ LET c2 == afterRequest(Cleared, g, success, clock)
       IN  /\ cb' = c2
           /\ last' = Op("Done", Nil, g, IF success THEN "success" ELSE "failure",
                       Stale(g), 1)
           /\ genAllow' = (genAllow /\ c2.generation = cb.generation)
           /\ History(c2, "Done")
    /\ seqFails' = -1
    /\ UNCHANGED <<clock, execs, handles>>

\* a caller lets go of a done handle of generation g
Drop(g) ==
    /\ BagIn(g, handles)
    /\ handles' = handles (-) One(g)
    /\ cb' = Cleared
    /\ last' = NoReport("Drop", Nil)
    /\ seqFails' = -1
    /\ UNCHANGED <<clock, execs, genAllow, openedAt, lastNote>>

\* time passes
Tick ==
    /\ clock < MaxTime
    /\ clock' = clock + 1
    /\ cb' = Cleared
    /\ last' = NoReport("Tick", Nil)
    /\ UNCHANGED <<execs, handles, seqFails, genAllow, openedAt, lastNote>>

(* ---------- specifications ---------- *)

InitWith(settings) ==
    /\ clock = 1
    /\ \E st \in settings : cb = NewCircuitBreaker(st, 1)
    /\ execs = EmptyBag
    /\ handles = EmptyBag
    /\ last = NoReport("New", Nil)
    /\ seqFails = 0
    /\ openedAt = 0
    /\ genAllow = FALSE
    /\ lastNote = StateClosed

Init == InitWith(SettingsSet)

Next ==
    \/ State
    \/ Execute(MaxCount)
    \/ \E g \in BagToSet(execs) : \E outcome \in {"ok", "err", "panic"} :
           Return(g, outcome, MaxCount)
    \/ Allow(MaxCount)
    \/ \E g \in BagToSet(handles) : \E success \in BOOLEAN : Done(g, success, MaxCount)
    \/ \E g \in BagToSet(handles) : Drop(g)
    \/ Tick

Spec == Init /\ [][Next]_vars

\* one caller, one Execute call at a time
InitSeq == InitWith(SeqSettingsSet)

NextSeq ==
    \/ State
    \/ InFlight = 0 /\ Execute(MaxSeqCount)
    \/ \E g \in BagToSet(execs) : \E outcome \in {"ok", "err", "panic"} :
           Return(g, outcome, MaxSeqCount)
    \/ Tick

SpecSeq == InitSeq /\ [][NextSeq]_vars

\* callers that use Execute only, a breaker with a short Timeout
LiveSettingsSet ==
    [MaxRequests : {0, 1, 2},
     Interval : {0, 1},
     Timeout : {1},
     ReadyToTrip : {TripAbove(0), TripAbove(1)},
     OnStateChange : {"observer"},
     IsSuccessful : {Nil}]

InitLive == InitWith(LiveSettingsSet)

\* the end of an Execute call whose req fails only while the breaker is Closed,
\* and early enough for the clock of the model to pass the expiry of the Open
\* state that the failure may lead to; a call admitted in HalfOpen succeeds
ReturnLive(g, outcome) ==
    /\ outcome # "ok" =>
           /\ currentState(Cleared, clock).state = StateClosed
           /\ clock + cb.timeout < MaxTime
    /\ Return(g, outcome, MaxCount)

NextLive ==
    \/ State
    \/ Execute(MaxCount)
    \/ \E g \in BagToSet(execs) : \E outcome \in {"ok", "err", "panic"} :
           ReturnLive(g, outcome)
    \/ Tick

\* the clock keeps advancing, callers keep calling Execute, and every req that
\* was started ends
FairLive ==
    /\ WF_vars(Tick)
    /\ WF_vars(Execute(MaxCount))
    /\ WF_vars(\E g \in BagToSet(execs) : \E outcome \in {"ok", "err", "panic"} :
                   ReturnLive(g, outcome))

SpecLive == InitLive /\ [][NextLive]_vars /\ FairLive

(* ---------- claims ---------- *)

\* the threshold K of the trip predicate "consecutive failures > K"
TripK == IF cb.readyToTrip.nil THEN 5 ELSE cb.readyToTrip.gt

\* C1: with no clearing interval and a trip predicate "consecutive failures > K",
\* a breaker that has received, from construction on, N failed calls one after
\* another and nothing else is Open if and only if N > K, and Closed otherwise;
\* with the default predicate it is Closed after the 5th failure and Open after
\* the 6th.
C1_OpenIffMoreThanK ==
    (seqFails >= 0 /\ InFlight = 0 /\ cb.interval = 0) =>
        /\ cb.state = (IF seqFails > TripK THEN StateOpen ELSE StateClosed)
        /\ cb.readyToTrip.nil =>
               /\ seqFails = 5 => cb.state = StateClosed
               /\ seqFails = 6 => cb.state = StateOpen

C1_Witness ==
    /\ seqFails = 6
    /\ cb.readyToTrip.nil
    /\ cb.state = StateOpen
    /\ last.op = "Return"

\* the state and generation beforeRequest resolves at this instant
Resolved == currentState(Cleared, clock)

SameBreaker ==
    /\ cb'.counts = cb.counts
    /\ cb'.state = cb.state
    /\ cb'.generation = cb.generation

\* C2: an Execute or Allow call whose beforeRequest resolves the state to Open
\* returns ErrOpenState, starts no request and hands out no done handle, and
\* leaves the five counters, the state and the generation as they were.
C2_OpenRejects ==
    [][(last'.op \in {"Execute", "Allow"} /\ Resolved.state = StateOpen) =>
           /\ last'.ret = ErrOpenState
           /\ execs' = execs
           /\ handles' = handles
           /\ SameBreaker]_vars

C2_Witness ==
    /\ last.op = "Execute"
    /\ last.ret = ErrOpenState
    /\ cb.state = StateOpen
    /\ InFlight > 0

Observing == {"State", "Execute", "Allow"}
Reporting == {"Return", "Done"}

\* the state the operation of this step observed: State returns it, Execute and
\* Allow tell it by their error
Observed(state) ==
    /\ cb'.state = state
    /\ last'.op = "State" => last'.ret = state
    /\ (last'.op # "State" /\ state = StateOpen) => last'.ret = ErrOpenState

\* the Execute or Allow call of this step was admitted as the first probe
FirstProbe ==
    last'.op \in {"Execute", "Allow"} =>
        /\ last'.ret = ErrNil
        /\ cb'.counts.Requests = 1
        /\ BagCardinality(execs') + BagCardinality(handles') = InFlight + 1

C3_Common ==
    /\ cb.state = StateOpen => (openedAt > 0 /\ openedAt <= clock)
    /\ (cb.state = StateOpen /\ last'.op \in Observing
            /\ clock <= openedAt + cb.timeout) => Observed(StateOpen)
    /\ (openedAt > 0 /\ last'.op \in Observing
            /\ clock > openedAt + cb.timeout) =>
           (Observed(StateHalfOpen) /\ FirstProbe)

LeavesOpen == cb.state = StateOpen /\ cb'.state # StateOpen

\* C3 as stated: once Open was entered at time T, a State, Execute or Allow call
\* at a clock value at or before T + timeout observes Open, the first such call
\* strictly after T + timeout observes HalfOpen (Execute and Allow are admitted
\* as the first probe), and nothing but such a call moves the breaker out of Open.
C3_Original ==
    [][/\ C3_Common
       /\ LeavesOpen => last'.op \in Observing]_vars

\* C3 as amended: ... and the breaker leaves Open only for HalfOpen, only at a
\* clock value strictly after T + timeout, by the lazy check of a State, Execute
\* or Allow call or of an outcome report (Execute's afterRequest, a done handle)
\* of a call admitted earlier.
C3_OpenUntilTimeout ==
    [][/\ C3_Common
       /\ LeavesOpen =>
              /\ cb'.state = StateHalfOpen
              /\ clock > openedAt + cb.timeout
              /\ last'.op \in Observing \cup Reporting
              /\ last'.op \in Reporting => last'.stale]_vars

C3_Witness ==
    /\ last.op = "Allow"
    /\ last.ret = ErrNil
    /\ cb.state = StateHalfOpen
    /\ Notes(cb) # << >>
    /\ cb.counts.Requests = 1

HalfOpenWithinQuota ==
    cb.state = StateHalfOpen => cb.counts.Requests <= cb.maxRequests

\* C4: in every reachable HalfOpen state Requests <= maxRequests, and an Execute
\* or Allow call that finds the breaker HalfOpen with Requests = maxRequests
\* returns ErrTooManyRequests, starts nothing and changes no counter.
C4_HalfOpenQuota ==
    /\ HalfOpenWithinQuota
    /\ [][/\ HalfOpenWithinQuota'
          /\ (/\ last'.op \in {"Execute", "Allow"}
              /\ Resolved.state = StateHalfOpen
              /\ Resolved.counts.Requests = cb.maxRequests) =>
                 /\ last'.ret = ErrTooManyRequests
                 /\ cb'.counts = cb.counts
                 /\ execs' = execs
                 /\ handles' = handles]_vars

C4_Witness ==
    /\ last.op = "Allow"
    /\ last.ret = ErrTooManyRequests
    /\ cb.state = StateHalfOpen
    /\ cb.maxRequests = 2
    /\ cb.counts.Requests = 2
    /\ Recorded(cb) = 0

\* the step records a success for the current generation
RecordsSuccess ==
    /\ last'.op \in Reporting
    /\ last'.verdict = "success"
    /\ last'.gen = cb.generation

\* C5: a HalfOpen breaker becomes Closed exactly in the step that records the
\* maxRequests-th consecutive success of the generation, never with fewer, and
\* all five counters are zero right after; when no Allow call was admitted in
\* the generation, maxRequests distinct admitted Execute calls have succeeded.
C5_ClosesOnMaxRequestsSuccesses ==
    [][/\ cb'.state = StateHalfOpen =>
              cb'.counts.ConsecutiveSuccesses < cb.maxRequests
       /\ (cb.state # StateClosed /\ cb'.state = StateClosed) =>
              /\ cb.state = StateHalfOpen
              /\ RecordsSuccess
              /\ cb.counts.ConsecutiveSuccesses + 1 = cb.maxRequests
              /\ cb'.counts = ZeroCounts
              /\ ~genAllow =>
                     /\ last'.op = "Return"
                     /\ cb.counts.Requests = cb.maxRequests
                     /\ cb.counts.TotalSuccesses = cb.maxRequests - 1
                     /\ cb.counts.TotalFailures = 0
       /\ (/\ cb.state = StateHalfOpen
           /\ RecordsSuccess
           /\ cb.counts.ConsecutiveSuccesses + 1 = cb.maxRequests) =>
              cb'.state = StateClosed]_vars

C5_Witness ==
    /\ last.op = "Return"
    /\ last.verdict = "success"
    /\ cb.state = StateClosed
    /\ cb.maxRequests = 2
    /\ Notes(cb) # << >>
    /\ cb.counts = ZeroCounts

Asked(c) == \E i \in 1..Len(c.calls) : c.calls[i].fn = "readyToTrip"

\* C6: a failure reported while HalfOpen for a probe of the current generation
\* moves the breaker to Open in that step, whatever maxRequests is and however
\* many successes the generation has, and the trip predicate is not called.
C6_HalfOpenFailureOpens ==
    [][(/\ cb.state = StateHalfOpen
        /\ last'.op \in Reporting
        /\ last'.verdict = "failure"
        /\ last'.gen = cb.generation) =>
           /\ cb'.state = StateOpen
           /\ cb'.generation = cb.generation + 1
           /\ ~Asked(cb')]_vars

C6_Witness ==
    /\ last.op \in Reporting
    /\ last.verdict = "failure"
    /\ cb.state = StateOpen
    /\ Notes(cb) # << >>
    /\ Notes(cb)[1].from = StateHalfOpen
    /\ cb.maxRequests = 2
    /\ cb.readyToTrip.gt = 1

SameAs(c) ==
    /\ cb'.counts = c.counts
    /\ cb'.state = c.state
    /\ cb'.generation = c.generation
    /\ cb'.expiry = c.expiry

\* C7 as stated: when the outcome of a call admitted at generation G is reported
\* and the breaker's generation is no longer G, the report changes neither the
\* counters nor the state nor the generation.
C7_Original ==
    [][(last'.op \in Reporting /\ last'.gen # cb.generation) => SameBreaker]_vars

\* C7 as amended: when the outcome of a call admitted at generation G is
\* reported and the generation afterRequest resolves is not G, the outcome is
\* dropped: the report does what the lazy check of State() does at that instant
\* (a due Open -> HalfOpen transition, a due closed-interval rollover) and
\* nothing else, so with no such check due it changes neither the counters nor
\* the state nor the generation, and no trip predicate is called.
C7_StaleOutcomeDropped ==
    [][(last'.op \in Reporting /\ Resolved.generation # last'.gen) =>
           /\ last'.stale
           /\ SameAs(Resolved)
           /\ ~Asked(cb')
           /\ Resolved.generation = cb.generation => SameBreaker]_vars

C7_Witness ==
    /\ last.op = "Return"
    /\ last.stale
    /\ cb.state = StateClosed
    /\ cb.counts.Requests = 1
    /\ Recorded(cb) = 0
    /\ last.gen < cb.generation

\* C8: ConsecutiveSuccesses and ConsecutiveFailures are never both non-zero.
C8_StreaksExclusive ==
    ~(cb.counts.ConsecutiveSuccesses > 0 /\ cb.counts.ConsecutiveFailures > 0)

C8_Witness ==
    /\ cb.counts.TotalFailures > 0
    /\ cb.counts.ConsecutiveSuccesses > 0
    /\ cb.counts.ConsecutiveFailures = 0

\* C9: when the request of an admitted Execute call panics, afterRequest runs
\* exactly once, with the admitted generation and a failure verdict, before the
\* panic goes on to the caller: the breaker ends as a returned error (classified
\* as a failure) leaves it, with the failure counted or the breaker tripped.
C9_PanicCountsAsFailure ==
    [][(last'.op = "Return" /\ last'.ret = "panic") =>
           /\ last'.after = 1
           /\ last'.verdict = "failure"
           /\ cb' = afterRequest(Cleared, last'.gen, FALSE, clock)
           /\ cb.isSuccessful = Nil =>
                  SameAs(ExecuteFinish(Cleared, last'.gen, "err", clock).cb)
           /\ (~last'.stale /\ Resolved.state = StateClosed) =>
                  \/ /\ cb'.state = StateClosed
                     /\ cb'.counts.TotalFailures = Resolved.counts.TotalFailures + 1
                     /\ cb'.counts.ConsecutiveFailures =
                            Resolved.counts.ConsecutiveFailures + 1
                  \/ /\ cb'.state = StateOpen
                     /\ Resolved.counts.ConsecutiveFailures + 1 > TripK
           /\ (~last'.stale /\ Resolved.state = StateHalfOpen) =>
                  cb'.state = StateOpen]_vars

C9_Witness ==
    /\ last.op = "Return"
    /\ last.ret = "panic"
    /\ ~last.stale
    /\ cb.state = StateOpen
    /\ Notes(cb) # << >>
    /\ Notes(cb)[1].from = StateClosed

\* C10: with an observer configured, a step that changes the state calls it
\* exactly once, with (previous state, new state), previous # new, after the
\* generation was incremented and the counts cleared; a step that leaves the
\* state as it is (a closed-interval rollover included) does not call it; each
\* notification's previous state is the new state of the one before it, the
\* first one's is Closed.
C10_ObserverFollowsState ==
    /\ lastNote = StateClosed
    /\ [][cb.onStateChange # Nil =>
              LET n == Notes(cb')
              IN  /\ lastNote = cb.state
                  /\ cb'.state = cb.state => n = << >>
                  /\ cb'.state # cb.state =>
                         /\ Len(n) = 1
                         /\ n[1].from = cb.state
                         /\ n[1].to = cb'.state
                         /\ n[1].from # n[1].to
                         /\ n[1].from = lastNote
                         /\ n[1].generation = cb.generation + 1
                         /\ n[1].counts = ZeroCounts
                         /\ lastNote' = n[1].to]_vars

C10_Witness ==
    /\ last.op = "State"
    /\ Notes(cb) # << >>
    /\ Notes(cb)[1].from = StateOpen
    /\ Notes(cb)[1].to = StateHalfOpen
    /\ cb.generation = 3

\* the entries of c.calls made by calling fn
CallsOf(c, fn) == SelectSeq(c.calls, LAMBDA e : e.fn = fn)

\* every call of fn by the operation that ran last was made with the mutex
\* held (locked = TRUE) or not held (locked = FALSE) by the caller
AllCalls(fn, locked) ==
    \A i \in DOMAIN CallsOf(cb, fn) : CallsOf(cb, fn)[i].locked = locked

\* C11 as stated: the trip predicate and the success classifier are called
\* only with the mutex held, the state-change observer only with the mutex
\* released.
C11_Original ==
    /\ AllCalls("readyToTrip", TRUE)
    /\ AllCalls("isSuccessful", TRUE)
    /\ AllCalls("onStateChange", FALSE)

\* C11 amended: the trip predicate and the state-change observer are called
\* only while the calling operation holds the mutex (the observer from
\* setState, before the deferred Unlock); the success classifier is called by
\* Execute before afterRequest takes the mutex, so never while the caller holds
\* it.
C11_CallbackLocking ==
    /\ AllCalls("readyToTrip", TRUE)
    /\ AllCalls("onStateChange", TRUE)
    /\ AllCalls("isSuccessful", FALSE)

\* an Execute call whose req returned an error: the classifier, the trip
\* predicate and the observer were all called
C11_Witness ==
    /\ last.op = "Return"
    /\ last.ret = "err"
    /\ CallsOf(cb, "isSuccessful") # << >>
    /\ CallsOf(cb, "readyToTrip") # << >>
    /\ CallsOf(cb, "onStateChange") # << >>

\* C12: the mutex is never held while a wrapped operation runs: beforeRequest
\* and afterRequest each take and release it, so in every state between two
\* operations, whatever calls are in flight (inside req, or holding a done
\* handle), the mutex is free, which is all that another caller's admission or
\* report waits for.
C12_MutexFreeWhileInFlight ==
    /\ ~cb.mutex
    /\ InFlight = BagCardinality(execs) + BagCardinality(handles)
    /\ InFlight <= NProcs

\* two calls admitted by Execute in Closed, neither reported yet
C12_Witness ==
    /\ cb.state = StateClosed
    /\ BagCardinality(execs) >= 2
    /\ cb.counts.Requests = 2
    /\ Recorded(cb) = 0
    /\ last.op = "Execute"

\* C13: right after construction, whatever the Settings, the breaker is Closed
\* and all five counters are zero, and State() and Counts() called at once
\* report just that; the first generation has started and no observer ran.
C13_StartsClosedAndZero ==
    last.op = "New" =>
        /\ cb.state = StateClosed
        /\ cb.counts = ZeroCounts
        /\ cb.counts.Requests = 0
        /\ cb.counts.TotalSuccesses = 0
        /\ cb.counts.TotalFailures = 0
        /\ cb.counts.ConsecutiveSuccesses = 0
        /\ cb.counts.ConsecutiveFailures = 0
        /\ cb.generation = 1
        /\ Notes(cb) = << >>
        /\ StateCall(Cleared, clock).state = StateClosed
        /\ StateCall(Cleared, clock).counts = ZeroCounts

\* a breaker just built from Settings that set every numeric field
C13_Witness ==
    /\ last.op = "New"
    /\ cb.maxRequests = 2
    /\ cb.interval = 1
    /\ cb.timeout = 1
    /\ cb.expiry = clock + 1
    /\ ~cb.readyToTrip.nil

\* C14: a State() call that directly follows a State() call, at the same
\* clock value, returns the same state and changes nothing: state,
\* generation, counts and expiry stay, no generation starts and no callback
\* runs, also when the first call made a due transition or rollover.
C14_StateIdempotent ==
    [][(last.op = "State" /\ last'.op = "State") =>
           /\ clock' = clock
           /\ last'.ret = last.ret
           /\ last'.ret = cb.state
           /\ cb'.state = cb.state
           /\ cb'.generation = cb.generation
           /\ cb'.counts = cb.counts
           /\ cb'.expiry = cb.expiry
           /\ cb'.calls = << >>]_vars

\* the second of two State() calls, the first of which went from Open to
\* HalfOpen
C14_Witness ==
    /\ last.op = "State"
    /\ last.again
    /\ cb.state = StateHalfOpen
    /\ cb.counts = ZeroCounts

\* the operations that resolve the state: State, an admission attempt, a report
Resolving == {"State", "Execute", "Allow", "Return", "Done"}

\* the generations that the operation that ran last started
Starts(c) == CallsOf(c, "toNewGeneration")

\* C15: in Closed with expiry e # 0 (interval > 0), the first operation at a
\* clock value > e starts exactly one new generation: generation + 1, all
\* counters zero at its start, expiry now + interval, state still Closed, no
\* observer call. After State or a report the counters are still zero (the
\* report is of the old generation); an admission then counts its request in
\* the new generation. An operation in Closed that is not past the expiry, and
\* any operation when interval = 0, leaves the generation of a Closed breaker.
C15_ClosedRollover ==
    /\ []((cb.state = StateClosed /\ cb.interval = 0) => cb.expiry = ZeroTime)
    /\ [][(cb.state = StateClosed /\ last'.op \in Resolving) =>
              IF cb.expiry # ZeroTime /\ cb.expiry < clock
              THEN /\ cb.interval > 0
                   /\ Len(Starts(cb')) = 1
                   /\ Starts(cb')[1].generation = cb.generation + 1
                   /\ Starts(cb')[1].counts = ZeroCounts
                   /\ cb'.generation = cb.generation + 1
                   /\ cb'.expiry = clock + cb.interval
                   /\ cb'.state = StateClosed
                   /\ Notes(cb') = << >>
                   /\ cb'.counts = IF last'.op \in {"Execute", "Allow"}
                                   THEN Counts_onRequest(ZeroCounts) ELSE ZeroCounts
                   /\ last'.op \in {"Execute", "Allow"} => last'.ret = ErrNil
              ELSE /\ cb'.state = StateClosed =>
                          /\ Starts(cb') = << >>
                          /\ cb'.generation = cb.generation
                          /\ cb'.expiry = cb.expiry
                   /\ cb.interval = 0 => cb'.state # StateClosed \/ cb'.expiry = ZeroTime
          ]_vars

\* an Execute call past the Closed expiry: admitted as the first request of
\* generation 2, with the expiry moved on
C15_Witness ==
    /\ last.op = "Execute"
    /\ last.ret = ErrNil
    /\ cb.state = StateClosed
    /\ cb.generation = 2
    /\ Len(Starts(cb)) = 1
    /\ cb.counts = Counts_onRequest(ZeroCounts)
    /\ cb.expiry = clock + cb.interval
    /\ clock > 2

\* a closed-interval rollover is due at the next resolving operation
RolloverDue == cb.state = StateClosed /\ cb.expiry # ZeroTime /\ cb.expiry < clock

\* C16: the generation is 1 after construction, never decreases and changes
\* only by +1 in a step; it changes exactly in the steps that clear the counts
\* (each start of a generation leaves all counters zero), and these are the
\* steps that change the state or roll a Closed interval over. A step that
\* changes neither leaves the generation and only counts a request or an
\* outcome, or nothing.
C16_GenerationCountsClearings ==
    /\ [](last.op = "New" =>
             cb.generation = 1 /\ Len(Starts(cb)) = 1 /\ cb.counts = ZeroCounts)
    /\ [](\A i \in DOMAIN Starts(cb) : Starts(cb)[i].counts = ZeroCounts)
    /\ [][ /\ cb'.generation \in {cb.generation, cb.generation + 1}
           /\ Len(Starts(cb')) = cb'.generation - cb.generation
           /\ \A i \in DOMAIN Starts(cb') :
                  Starts(cb')[i].generation = cb.generation + 1
           /\ cb'.generation # cb.generation <=>
                  \/ cb'.state # cb.state
                  \/ RolloverDue /\ last'.op \in Resolving
           /\ cb'.generation # cb.generation =>
                  cb'.counts = IF last'.op \in {"Execute", "Allow"} /\ last'.ret = ErrNil
                               THEN Counts_onRequest(ZeroCounts) ELSE ZeroCounts
           /\ cb'.generation = cb.generation =>
                  cb'.counts \in {cb.counts, Counts_onRequest(cb.counts),
                                  Counts_onSuccess(cb.counts), Counts_onFailure(cb.counts)}
       ]_vars

\* a failure reported in HalfOpen: back to Open in generation 4 (construction,
\* Closed->Open, Open->HalfOpen, HalfOpen->Open), counters zero
C16_Witness ==
    /\ last.op \in {"Return", "Done"}
    /\ cb.state = StateOpen
    /\ cb.generation = 4
    /\ Len(Starts(cb)) = 1
    /\ cb.counts = ZeroCounts

\* the step reports an outcome for a call admitted in the current generation
ReportsCurrent == last'.op \in Reporting /\ last'.gen = cb.generation

\* C17: once maxRequests probes are admitted in a HalfOpen generation, every
\* step that does not report an outcome of that generation (State, Execute,
\* Allow, a stale report, a handle let go, time passing) leaves the breaker
\* HalfOpen in the same generation with the same counts, however late the
\* clock, asks no trip predicate and tells no observer, and every
\* Execute/Allow is rejected with ErrTooManyRequests and
\* admits nothing.
C17_HalfOpenStarvation ==
    [][(/\ cb.state = StateHalfOpen
        /\ cb.counts.Requests >= cb.maxRequests
        /\ ~ReportsCurrent) =>
           /\ cb'.state = StateHalfOpen
           /\ cb'.generation = cb.generation
           /\ cb'.counts = cb.counts
           /\ cb'.expiry = ZeroTime
           /\ Starts(cb') = << >>
           /\ Notes(cb') = << >>
           /\ CallsOf(cb', "readyToTrip") = << >>
           /\ last'.op = "State" => last'.ret = StateHalfOpen
           /\ last'.op \in {"Execute", "Allow"} =>
                  /\ last'.ret = ErrTooManyRequests
                  /\ execs' = execs
                  /\ handles' = handles]_vars

\* the one probe of a HalfOpen generation is still inside req, time has
\* passed since its admission, and an Execute call was just rejected
C17_Witness ==
    /\ cb.state = StateHalfOpen
    /\ cb.maxRequests = 1
    /\ cb.counts = Counts_onRequest(ZeroCounts)
    /\ BagIn(cb.generation, execs)
    /\ last.op = "Execute"
    /\ last.ret = ErrTooManyRequests
    /\ clock >= 4

\* C18: in every reachable state, whatever the interleaving of Execute calls,
\* Allow calls and calls of done handles (each any number of times),
\* TotalSuccesses + TotalFailures <= Requests: no admitted call adds more than
\* one outcome to the counts of its generation.
C18_OutcomesWithinRequests ==
    cb.counts.TotalSuccesses + cb.counts.TotalFailures <= cb.counts.Requests

\* the step records, in the generation current at the report, an outcome with
\* this verdict for a call admitted in that generation
Records(verdict) ==
    /\ last'.op \in Reporting
    /\ last'.verdict = verdict
    /\ last'.gen = cb.generation
    /\ ~last'.stale

\* C19: the state changes only from Closed to Open (a recorded failure after
\* which the trip predicate, asked, answers true), from Open to HalfOpen (a
\* resolving operation past the Open expiry), from HalfOpen to Closed (a
\* recorded success) and from HalfOpen to Open (a recorded failure); and in
\* every Open state all counters are zero.
C19_OnlyFourStateChanges ==
    /\ [](cb.state \in {StateClosed, StateHalfOpen, StateOpen})
    /\ [](cb.state = StateOpen => cb.counts = ZeroCounts)
    /\ [][cb'.state # cb.state =>
              \/ /\ cb.state = StateClosed
                 /\ cb'.state = StateOpen
                 /\ Records("failure")
                 /\ Asked(cb')
                 /\ readyToTrip(cb, Counts_onFailure(cb.counts))
              \/ /\ cb.state = StateOpen
                 /\ cb'.state = StateHalfOpen
                 /\ last'.op \in Resolving
                 /\ cb.expiry < clock
              \/ /\ cb.state = StateHalfOpen
                 /\ cb'.state = StateClosed
                 /\ Records("success")
              \/ /\ cb.state = StateHalfOpen
                 /\ cb'.state = StateOpen
                 /\ Records("failure")
                 /\ ~Asked(cb')
          ]_vars

\* Closed again in generation 4 with no interval: the breaker went Closed,
\* Open, HalfOpen, Closed
C19_Witness ==
    /\ cb.state = StateClosed
    /\ cb.interval = 0
    /\ cb.generation = 4
    /\ last.op \in Reporting
    /\ Notes(cb) # << >>
    /\ Notes(cb)[1].from = StateHalfOpen

\* C20: when the clock keeps advancing, callers keep calling Execute, every
\* admitted call reports its outcome and calls admitted in HalfOpen succeed,
\* an Open breaker eventually is Closed again; and the mutex is free between
\* any two operations, so no caller waits for it forever.
C20_RecoveryLiveness ==
    /\ [](~cb.mutex)
    /\ (cb.state = StateOpen) ~> (cb.state = StateClosed)

\* Closed again by the second success of two probes, after Open and HalfOpen
C20_Witness ==
    /\ cb.state = StateClosed
    /\ cb.maxRequests = 2
    /\ cb.generation >= 4
    /\ last.op = "Return"
    /\ last.ret = "ok"
    /\ Len(Notes(cb)) = 1
    /\ Notes(cb)[1].from = StateHalfOpen
    /\ Notes(cb)[1].to = StateClosed

====
